---- MODULE Spec2Model ----
(***************************************************************************)
(* The game of Pig of pig.py: two players (human or computer), one die,    *)
(* the turn loop of Game.play_turn, the run loop of Game.start_game and    *)
(* the timed variant TimedGameProxy.                                       *)
(***************************************************************************)
EXTENDS Integers, Sequences, FiniteSets, TLC

(* ------------------------------ bounds -------------------------------- *)
\* a human keeps rolling only while the turn total stays within this cap
MaxTurnTotal == 10
\* number of turns human players may begin in one game
MaxHumanTurns == 2

\* largest arguments given to the automated policy when it is checked alone
PolicyMaxScore == 110
PolicyMaxTurn == 40

(* ------------------------- program constants -------------------------- *)
WinScore == 100
HoldAt == 25
TimeLimit == 60

DieFaces == 1..6
PlayerTypes == {"human", "computer"}
\* the later instants (seconds after the start) at which the clock is read
Instants == {TimeLimit, TimeLimit + 1}

\* no line read / no decision taken yet in this call of play_turn
None == <<"<none>">>
\* lines a human may type at the prompt, as sequences of characters
Responses ==
    { <<"h">>, <<"H">>, <<"r">>,
      <<"h", "o", "l", "d">>, <<"H", "o", "l", "d">> }

VARIABLES
    ptype,           \* ptype[i]: class of players[i] ("human" = Player, "computer" = ComputerPlayer)
    timed,           \* TRUE when the game object is a TimedGameProxy
    score,           \* score[i] = players[i].score
    turn_total,      \* Game.turn_total
    current_player,  \* Game.current_player
    die,             \* Die.value
    pc,              \* position of the control thread
    decision,        \* local `decision` of play_turn
    typed,           \* the line last read by input(), before .lower()
    now,             \* time.time()
    start_time,      \* TimedGameProxy.start_time
    timeUp,          \* "Time's up!" has been printed
    declared,        \* index of the player named by declare_winner, -1 if none
    winner,          \* index of the player congratulated by start_game, -1 if none
    humanTurns,      \* turns begun by human players
    lastEnd,         \* how the last finished turn ended, and whose it was
    rolled,          \* sum of the die values shown since play_turn was entered
    turnStart        \* the scores when the running turn began

vars == << ptype, timed, score, turn_total, current_player, die, pc, decision,
           typed, now, start_time, timeUp, declared, winner, humanTurns,
           lastEnd, rolled, turnStart >>

(* --------------------------- pure functions --------------------------- *)
Min(a, b) == IF a <= b THEN a ELSE b

\* str.lower() on one character
LowerChar(c) ==
    CASE c = "H" -> "h"
      [] c = "O" -> "o"
      [] c = "L" -> "l"
      [] c = "D" -> "d"
      [] c = "R" -> "r"
      [] OTHER -> c

\* str.lower()
Lower(s) == [i \in DOMAIN s |-> LowerChar(s[i])]

\* (mutant) the typed line returned as it is, .lower() forgotten
HumanDecisionAsTyped(line) == line

\* Player.make_decision: the typed line, lower-cased
HumanDecision(line) == Lower(line)

\* (mutant) hold at 25 only, whatever the banked score
ComputerDecisionHoldAtOnly(current_score, tt) ==
    IF tt >= HoldAt THEN <<"h">> ELSE <<"r">>

\* (mutant) strict comparisons in place of >=
ComputerDecisionStrict(current_score, tt) ==
    IF tt + current_score > WinScore \/ tt > Min(HoldAt, WinScore - current_score)
    THEN <<"h">>
    ELSE <<"r">>

\* ComputerPlayer.make_decision
ComputerDecision(current_score, tt) ==
    IF tt + current_score >= WinScore \/ tt >= Min(HoldAt, WinScore - current_score)
    THEN <<"h">>
    ELSE <<"r">>

\* the test of play_turn on the decision
IsHold(d) == d = <<"h">>

\* (mutant) all() in place of any()
is_winnerAll(s) == \A i \in DOMAIN s : s[i] >= WinScore

\* Game.is_winner
is_winner(s) == \E i \in DOMAIN s : s[i] >= WinScore

\* (mutant) the last player with the highest score
MaxByScoreLast(s) == IF s[1] >= s[0] THEN 1 ELSE 0

\* (mutant) min() in place of max()
MinByScore(s) == IF s[1] < s[0] THEN 1 ELSE 0

\* max(self.players, key=lambda p: p.score): the first player with the highest score
MaxByScore(s) == IF s[1] > s[0] THEN 1 ELSE 0

\* the test of TimedGameProxy.play_turn
TimeExceeded(t, t0) == t - t0 > TimeLimit

\* Game.switch_player
switch_player(cp) == 1 - cp

\* (mutant) an unknown player type gives a human player
create_playerDefaultsHuman(player_type) ==
    IF player_type = "computer" THEN "computer" ELSE "human"

\* PlayerFactory.create_player: the class of the player made, or the error raised
create_player(player_type) ==
    IF player_type = "computer" THEN "computer"
    ELSE IF player_type = "human" THEN "human"
    ELSE "ValueError"

(* ------------------------------- state -------------------------------- *)
\* players[i] is a Player, not a ComputerPlayer
IsHuman(i) == ptype[i] = "human"

Init ==
    /\ ptype \in [0..1 -> PlayerTypes]
    /\ timed \in BOOLEAN
    /\ score = [i \in 0..1 |-> 0]
    /\ turn_total = 0
    /\ current_player = 0
    /\ die = 0
    /\ pc = "start"
    /\ decision = None
    /\ typed = None
    /\ now = 0
    /\ start_time = 0
    /\ timeUp = FALSE
    /\ declared = -1
    /\ winner = -1
    /\ humanTurns = 0
    /\ lastEnd = <<"none", -1>>
    /\ rolled = 0
    /\ turnStart = [i \in 0..1 |-> 0]

\* start_game: the test of the while loop, then either the call of play_turn
\* or the announcement of the winner
StartGame ==
    /\ pc = "start"
    /\ IF is_winner(score)
       THEN /\ winner' = MaxByScore(score)
            /\ pc' = "done"
       ELSE /\ pc' = "turn"
            /\ UNCHANGED winner
    /\ UNCHANGED << ptype, timed, score, turn_total, current_player, die,
                    decision, typed, now, start_time, timeUp, declared,
                    humanTurns, lastEnd, rolled, turnStart >>

\* (mutant) play_turn entered without resetting the turn total
EnterTurnNoReset ==
    /\ IsHuman(current_player) => humanTurns < MaxHumanTurns
    /\ turn_total' = turn_total
    /\ rolled' = 0
    /\ turnStart' = score
    /\ decision' = None
    /\ typed' = None
    /\ humanTurns' = IF IsHuman(current_player) THEN humanTurns + 1 ELSE humanTurns
    /\ pc' = "roll"
    /\ UNCHANGED << ptype, timed, score, current_player, die, now, start_time,
                    timeUp, declared, winner, lastEnd >>

\* Game.play_turn up to the loop: the turn total is reset
EnterTurn ==
    /\ IsHuman(current_player) => humanTurns < MaxHumanTurns
    /\ turn_total' = 0
    /\ rolled' = 0
    /\ turnStart' = score
    /\ decision' = None
    /\ typed' = None
    /\ humanTurns' = IF IsHuman(current_player) THEN humanTurns + 1 ELSE humanTurns
    /\ pc' = "roll"
    /\ UNCHANGED << ptype, timed, score, current_player, die, now, start_time,
                    timeUp, declared, winner, lastEnd >>

\* Game.play_turn called on a Game
GamePlayTurn ==
    /\ pc = "turn"
    /\ ~timed
    /\ EnterTurn

\* TimedGameProxy.declare_winner
DeclareWinner ==
    /\ declared' = MaxByScore(score)

\* (mutant) the return after declare_winner forgotten: the turn is played
TimedPlayTurnNoReturn ==
    /\ pc = "turn"
    /\ timed
    /\ IsHuman(current_player) => humanTurns < MaxHumanTurns
    /\ IF TimeExceeded(now, start_time)
       THEN timeUp' = TRUE /\ DeclareWinner
       ELSE UNCHANGED << timeUp, declared >>
    /\ turn_total' = 0
    /\ rolled' = 0
    /\ turnStart' = score
    /\ decision' = None
    /\ typed' = None
    /\ humanTurns' = IF IsHuman(current_player) THEN humanTurns + 1 ELSE humanTurns
    /\ pc' = "roll"
    /\ UNCHANGED << ptype, timed, score, current_player, die, now, start_time,
                    winner, lastEnd >>

\* TimedGameProxy.play_turn: the time check, then the turn as normal
TimedPlayTurn ==
    /\ pc = "turn"
    /\ timed
    /\ IF TimeExceeded(now, start_time)
       THEN /\ timeUp' = TRUE
            /\ DeclareWinner
            /\ pc' = "start"
            /\ UNCHANGED << ptype, timed, score, turn_total, current_player,
                            die, decision, typed, now, start_time, winner,
                            humanTurns, lastEnd, rolled, turnStart >>
       ELSE EnterTurn

\* (mutant) a roll of 1 ends the turn but leaves the turn total as it is
RollKeepsTotalOnOne ==
    /\ pc = "roll"
    /\ \E r \in DieFaces :
        /\ die' = r
        /\ IF r = 1
           THEN /\ turn_total' = turn_total
                /\ current_player' = switch_player(current_player)
                /\ lastEnd' = <<"bust", current_player>>
                /\ pc' = "start"
                /\ UNCHANGED rolled
           ELSE /\ IsHuman(current_player) => turn_total + r <= MaxTurnTotal
                /\ turn_total' = turn_total + r
                /\ rolled' = rolled + r
                /\ pc' = "decide"
                /\ UNCHANGED << current_player, lastEnd >>
    /\ UNCHANGED << ptype, timed, score, decision, typed, now, start_time,
                    timeUp, declared, winner, humanTurns, turnStart >>

\* (mutant) a roll of 1 ends the turn without switching the active player
RollNoSwitchOnOne ==
    /\ pc = "roll"
    /\ \E r \in DieFaces :
        /\ die' = r
        /\ IF r = 1
           THEN /\ turn_total' = 0
                /\ lastEnd' = <<"bust", current_player>>
                /\ pc' = "start"
                /\ UNCHANGED << rolled, current_player >>
           ELSE /\ IsHuman(current_player) => turn_total + r <= MaxTurnTotal
                /\ turn_total' = turn_total + r
                /\ rolled' = rolled + r
                /\ pc' = "decide"
                /\ UNCHANGED << current_player, lastEnd >>
    /\ UNCHANGED << ptype, timed, score, decision, typed, now, start_time,
                    timeUp, declared, winner, humanTurns, turnStart >>

\* (mutant) the elapsed time is checked before every roll as well
RollChecksTime ==
    /\ pc = "roll"
    /\ IF timed /\ TimeExceeded(now, start_time)
       THEN /\ timeUp' = TRUE
            /\ DeclareWinner
            /\ pc' = "start"
            /\ UNCHANGED << die, turn_total, current_player, lastEnd, rolled >>
       ELSE /\ UNCHANGED << timeUp, declared >>
            /\ \E r \in DieFaces :
                /\ die' = r
                /\ IF r = 1
                   THEN /\ turn_total' = 0
                        /\ current_player' = switch_player(current_player)
                        /\ lastEnd' = <<"bust", current_player>>
                        /\ pc' = "start"
                        /\ UNCHANGED rolled
                   ELSE /\ IsHuman(current_player) => turn_total + r <= MaxTurnTotal
                        /\ turn_total' = turn_total + r
                        /\ rolled' = rolled + r
                        /\ pc' = "decide"
                        /\ UNCHANGED << current_player, lastEnd >>
    /\ UNCHANGED << ptype, timed, score, decision, typed, now, start_time,
                    winner, humanTurns, turnStart >>

\* one roll of the die in the loop of play_turn
Roll ==
    /\ pc = "roll"
    /\ \E r \in DieFaces :
        /\ die' = r
        /\ IF r = 1
           THEN /\ turn_total' = 0
                /\ current_player' = switch_player(current_player)
                /\ lastEnd' = <<"bust", current_player>>
                /\ pc' = "start"
                /\ UNCHANGED rolled
           ELSE /\ IsHuman(current_player) => turn_total + r <= MaxTurnTotal
                /\ turn_total' = turn_total + r
                /\ rolled' = rolled + r
                /\ pc' = "decide"
                /\ UNCHANGED << current_player, lastEnd >>
    /\ UNCHANGED << ptype, timed, score, decision, typed, now, start_time,
                    timeUp, declared, winner, humanTurns, turnStart >>

\* (mutant) a bank assigns the turn total to the score instead of adding it
ResolveAssigns(d) ==
    /\ decision' = d
    /\ IF IsHold(d)
       THEN /\ score' = [score EXCEPT ![current_player] = turn_total]
            /\ current_player' = switch_player(current_player)
            /\ lastEnd' = <<"bank", current_player>>
            /\ pc' = "start"
       ELSE /\ pc' = "roll"
            /\ UNCHANGED << score, current_player, lastEnd >>
    /\ UNCHANGED << ptype, timed, turn_total, die, now, start_time, timeUp,
                    declared, winner, humanTurns, rolled, turnStart >>

\* (mutant) a bank adds the turn total to the score of the other player
ResolveBanksOther(d) ==
    /\ decision' = d
    /\ IF IsHold(d)
       THEN /\ score' = [score EXCEPT ![1 - current_player] = @ + turn_total]
            /\ current_player' = switch_player(current_player)
            /\ lastEnd' = <<"bank", current_player>>
            /\ pc' = "start"
       ELSE /\ pc' = "roll"
            /\ UNCHANGED << score, current_player, lastEnd >>
    /\ UNCHANGED << ptype, timed, turn_total, die, now, start_time, timeUp,
                    declared, winner, humanTurns, rolled, turnStart >>

\* (mutant) a bank ends the turn without adding the turn total to the score
ResolveNoAdd(d) ==
    /\ decision' = d
    /\ IF IsHold(d)
       THEN /\ score' = score
            /\ current_player' = switch_player(current_player)
            /\ lastEnd' = <<"bank", current_player>>
            /\ pc' = "start"
       ELSE /\ pc' = "roll"
            /\ UNCHANGED << score, current_player, lastEnd >>
    /\ UNCHANGED << ptype, timed, turn_total, die, now, start_time, timeUp,
                    declared, winner, humanTurns, rolled, turnStart >>

\* (mutant) the turn total is added to the score before the decision is tested
ResolveAddsOnContinue(d) ==
    /\ decision' = d
    /\ score' = [score EXCEPT ![current_player] = @ + turn_total]
    /\ IF IsHold(d)
       THEN /\ current_player' = switch_player(current_player)
            /\ lastEnd' = <<"bank", current_player>>
            /\ pc' = "start"
       ELSE /\ pc' = "roll"
            /\ UNCHANGED << current_player, lastEnd >>
    /\ UNCHANGED << ptype, timed, turn_total, die, now, start_time, timeUp,
                    declared, winner, humanTurns, rolled, turnStart >>

\* the rest of the loop body once `decision` is known
Resolve(d) ==
    /\ decision' = d
    /\ IF IsHold(d)
       THEN /\ score' = [score EXCEPT ![current_player] = @ + turn_total]
            /\ current_player' = switch_player(current_player)
            /\ lastEnd' = <<"bank", current_player>>
            /\ pc' = "start"
       ELSE /\ pc' = "roll"
            /\ UNCHANGED << score, current_player, lastEnd >>
    /\ UNCHANGED << ptype, timed, turn_total, die, now, start_time, timeUp,
                    declared, winner, humanTurns, rolled, turnStart >>

\* a human player answers the prompt
DecideHuman ==
    /\ pc = "decide"
    /\ IsHuman(current_player)
    /\ \E line \in Responses :
        /\ typed' = line
        /\ Resolve(HumanDecision(line))

\* (mutant) the computer's decision is drawn at random
DecideComputerAtRandom ==
    /\ pc = "decide"
    /\ ~IsHuman(current_player)
    /\ typed' = typed
    /\ \E d \in {<<"h">>, <<"r">>} : Resolve(d)

\* a computer player decides
DecideComputer ==
    /\ pc = "decide"
    /\ ~IsHuman(current_player)
    /\ typed' = typed
    /\ Resolve(ComputerDecision(score[current_player], turn_total))

\* the wall clock advances while the timed game runs
Tick ==
    /\ timed
    /\ pc \in {"start", "turn", "roll", "decide"}
    /\ \E t \in Instants :
        /\ t > now
        /\ now' = t
    /\ UNCHANGED << ptype, timed, score, turn_total, current_player, die, pc,
                    decision, typed, start_time, timeUp, declared, winner,
                    humanTurns, lastEnd, rolled, turnStart >>

Next ==
    \/ StartGame
    \/ GamePlayTurn
    \/ TimedPlayTurn
    \/ Roll
    \/ DecideHuman
    \/ DecideComputer
    \/ Tick

Spec == Init /\ [][Next]_vars

\* values given as a player type on the command line or to the factory
ArgTypes == {"human", "computer", "robot", "Human"}

\* the process before the game exists: main() entered with a command line, or
\* the factory lines of main() run on values that did not pass the parser
MainInit ==
    /\ pc \in {"main", "create"}
    /\ ptype \in [0..1 -> ArgTypes]
    /\ timed \in BOOLEAN
    /\ score = [i \in 0..1 |-> 0]
    /\ turn_total = 0
    /\ current_player = 0
    /\ die = 0
    /\ decision = None
    /\ typed = None
    /\ now = 0
    /\ start_time = 0
    /\ timeUp = FALSE
    /\ declared = -1
    /\ winner = -1
    /\ humanTurns = 0
    /\ lastEnd = <<"none", -1>>
    /\ rolled = 0
    /\ turnStart = [i \in 0..1 |-> 0]

\* parser.parse_args(): a player type outside the choices ends the process
ParseArgs ==
    /\ pc = "main"
    /\ pc' = IF \A i \in 0..1 : ptype[i] \in PlayerTypes THEN "create" ELSE "usage"
    /\ UNCHANGED << ptype, timed, score, turn_total, current_player, die,
                    decision, typed, now, start_time, timeUp, declared, winner,
                    humanTurns, lastEnd, rolled, turnStart >>

\* the two calls of PlayerFactory.create_player in main()
CreatePlayers ==
    /\ pc = "create"
    /\ LET made == [i \in 0..1 |-> create_player(ptype[i])]
       IN  IF \E i \in 0..1 : made[i] = "ValueError"
           THEN pc' = "raised" /\ UNCHANGED ptype
           ELSE pc' = "construct" /\ ptype' = made
    /\ UNCHANGED << timed, score, turn_total, current_player, die, decision,
                    typed, now, start_time, timeUp, declared, winner,
                    humanTurns, lastEnd, rolled, turnStart >>

\* Game(player1, player2) or TimedGameProxy(player1, player2), then start_game
Construct ==
    /\ pc = "construct"
    /\ score' = [i \in 0..1 |-> 0]
    /\ turn_total' = 0
    /\ current_player' = 0
    /\ die' = 0
    /\ start_time' = now
    /\ pc' = "start"
    /\ UNCHANGED << ptype, timed, decision, typed, now, timeUp, declared,
                    winner, humanTurns, lastEnd, rolled, turnStart >>

MainNext ==
    \/ ParseArgs
    \/ CreatePlayers
    \/ Construct
    \/ StartGame
    \/ GamePlayTurn
    \/ TimedPlayTurn
    \/ Roll
    \/ DecideHuman
    \/ DecideComputer
    \/ Tick
MainSpec == MainInit /\ [][MainNext]_vars

\* the base game: main() without --timed
BaseInit == Init /\ ~timed
BaseNext ==
    \/ StartGame
    \/ GamePlayTurn
    \/ Roll
    \/ DecideHuman
    \/ DecideComputer
BaseSpec == BaseInit /\ [][BaseNext]_vars

\* the timed game: main() with --timed
TimedInit == Init /\ timed
TimedNext ==
    \/ StartGame
    \/ TimedPlayTurn
    \/ Roll
    \/ DecideHuman
    \/ DecideComputer
    \/ Tick
TimedSpec == TimedInit /\ [][TimedNext]_vars

\* the control thread never stops of itself, and a human asked for a decision
\* answers in the end; nothing is assumed of the clock
TimedFairness ==
    /\ WF_vars(StartGame)
    /\ WF_vars(TimedPlayTurn)
    /\ WF_vars(Roll)
    /\ WF_vars(DecideHuman)
    /\ WF_vars(DecideComputer)
FairTimedSpec == TimedSpec /\ TimedFairness

\* the base game between two computer players
CCInit == BaseInit /\ ptype = [i \in 0..1 |-> "computer"]
CCNext ==
    \/ StartGame
    \/ GamePlayTurn
    \/ Roll
    \/ DecideComputer
CCSpec == CCInit /\ [][CCNext]_vars

\* the control thread of the computer-vs-computer game never stops of itself;
\* nothing is assumed of the values the die shows
CCFairness ==
    /\ WF_vars(StartGame)
    /\ WF_vars(GamePlayTurn)
    /\ WF_vars(Roll)
    /\ WF_vars(DecideComputer)
FairCCSpec == CCSpec /\ CCFairness

\* a late state of a base game between two humans who banked 5 in each turn
\* that did not bust: the second player has just banked 5, both stand at 90
\* or 95; the turns of human players are counted from here
LateInit ==
    /\ ptype = [i \in 0..1 |-> "human"]
    /\ timed = FALSE
    /\ score \in [0..1 -> {WinScore - 10, WinScore - 5}]
    /\ turn_total = 5
    /\ current_player = 0
    /\ die = 5
    /\ pc = "start"
    /\ decision = <<"h">>
    /\ typed = <<"h">>
    /\ now = 0
    /\ start_time = 0
    /\ timeUp = FALSE
    /\ declared = -1
    /\ winner = -1
    /\ humanTurns = 0
    /\ lastEnd = <<"bank", 1>>
    /\ rolled = 5
    /\ turnStart = [score EXCEPT ![1] = @ - 5]
LateNext ==
    \/ StartGame
    \/ GamePlayTurn
    \/ Roll
    \/ DecideHuman
LateSpec == LateInit /\ [][LateNext]_vars

\* the automated policy on its own: ComputerPlayer.make_decision applied once,
\* in a turn of either player, to every pair of arguments within the bounds
PolicyInit ==
    /\ ptype = [i \in 0..1 |-> "computer"]
    /\ timed = FALSE
    /\ current_player \in 0..1
    /\ \E b \in 0..PolicyMaxScore, o \in {0, WinScore - 1} :
          score = [i \in 0..1 |-> IF i = current_player THEN b ELSE o]
    /\ turn_total \in 0..PolicyMaxTurn
    /\ die \in {2, 6}
    /\ pc = "decide"
    /\ decision = None
    /\ typed = None
    /\ now = 0
    /\ start_time = 0
    /\ timeUp = FALSE
    /\ declared = -1
    /\ winner = -1
    /\ humanTurns = 0
    /\ lastEnd = <<"none", -1>>
    /\ rolled = turn_total
    /\ turnStart = score
PolicyNext == DecideComputer
PolicySpec == PolicyInit /\ [][PolicyNext]_vars

(* ------------------------------- claims ------------------------------- *)

\* C1: in the timed game, once a check at a turn boundary has found the time
\* limit exceeded, start_game returns in the end (also when nobody has reached
\* the winning score).
C1_TimeoutEndsRun == timeUp ~> (pc = "done")

\* a step that leaves the decision point of a turn, i.e. one decision
DecisionStep == pc = "decide" /\ pc' # "decide"
\* the step banks the turn total of the active player and ends the turn
Banks ==
    /\ score' = [score EXCEPT ![current_player] = @ + turn_total]
    /\ pc' = "start"
\* the step leaves the turn rolling, with the turn total and the scores kept
KeepsRolling ==
    /\ pc' = "roll"
    /\ turn_total' = turn_total
    /\ score' = score
SaysHold(line) == Lower(line) = <<"h", "o", "l", "d">>
SaysH(line) == Lower(line) = <<"h">>

C3_BustForfeits ==
    [][ (pc = "roll" /\ pc' # "roll" /\ die' = 1) =>
            /\ pc' = "start"
            /\ turn_total' = 0
            /\ decision' = decision /\ typed' = typed
            /\ score' = score /\ score' = turnStart ]_vars

\* a 1 was rolled after points had been accumulated in the turn
C3_Witness ==
    /\ die = 1
    /\ pc = "start"
    /\ lastEnd[1] = "bust"
    /\ rolled > 0
    /\ turn_total = 0
    /\ score = turnStart

\* C4: inside a turn the turn total is the sum of the rolls made since the
\* turn began (0 at its start), and a bank adds exactly that sum to the score
\* the active player had when the turn began, leaving the other score alone.
C4_BankAddsTurnRolls ==
    [][ /\ pc' \in {"roll", "decide"} => turn_total' = rolled'
        /\ (pc' = "roll" /\ pc = "turn") => turn_total' = 0
        /\ (DecisionStep /\ pc' = "start") =>
              /\ rolled >= 2
              /\ score' = [turnStart EXCEPT ![current_player] = @ + rolled] ]_vars

\* a bank in a turn that follows a banked turn of the other player
C4_Witness ==
    /\ pc = "start"
    /\ lastEnd[1] = "bank"
    /\ score[0] > 0
    /\ score[1] > 0
    /\ score[lastEnd[2]] = turnStart[lastEnd[2]] + rolled

\* the player whose decision was taken last
Decider == IF pc = "start" THEN lastEnd[2] ELSE current_player

\* C5: the automated policy answers hold exactly when the turn total plus the
\* banked score is at least 100 or the turn total is at least
\* min(25, 100 - banked score), whatever the rest of the state; so it never
\* rolls on with 100 in reach, holds at (80, 20) and (0, 25), rolls at (0, 24).
C5_AutomatedPolicy ==
    decision # None =>
        LET b == turnStart[Decider]
            t == rolled
            lim == IF 25 <= 100 - b THEN 25 ELSE 100 - b
        IN  /\ decision \in {<<"h">>, <<"r">>}
            /\ IsHold(decision) <=> (t + b >= 100 \/ t >= lim)
            /\ t + b >= 100 => IsHold(decision)
            /\ (b = 80 /\ t = 20) => IsHold(decision)
            /\ (b = 0 /\ t = 24) => ~IsHold(decision)
            /\ (b = 0 /\ t = 25) => IsHold(decision)

\* the policy held at a banked score of 80 and a turn total of 20
C5_Witness ==
    /\ decision = <<"h">>
    /\ turnStart[Decider] = 80
    /\ rolled = 20
    /\ score[Decider] = 100

\* C6: is_winner is true exactly when a banked score is at least 100 (the turn
\* total does not count), and the run loop leaves on exactly that condition.
C6_WinnerIffHundred ==
    /\ [](is_winner(score) <=> (score[0] >= 100 \/ score[1] >= 100))
    /\ [][ (pc = "start" /\ pc' # "start") =>
              ((pc' = "done") <=> (score[0] >= 100 \/ score[1] >= 100)) ]_vars

\* the run loop has left with the second player at 100 or more and the first
\* one below
C6_Witness ==
    /\ pc = "done"
    /\ score[1] >= 100
    /\ score[0] < 100

\* a step that ends a turn of the base game
TurnEnds == pc \in {"roll", "decide"} /\ pc' = "start"

\* C7: in the base game the active player is 0 or 1, is player 0 in the first
\* turn, changes to the other player in the step that ends a turn (by a bust
\* or by a bank) and in no other step; so turns alternate.
C7_TurnsAlternate ==
    /\ [](current_player \in {0, 1})
    /\ [](lastEnd[2] = -1 => current_player = 0)
    /\ [](lastEnd[2] # -1 => current_player = 1 - lastEnd[2])
    /\ [][ IF TurnEnds
           THEN current_player' = 1 - current_player
           ELSE current_player' = current_player ]_vars

\* the first player is in his second turn, after a turn of the second player
C7_Witness ==
    /\ ~timed
    /\ pc = "decide"
    /\ current_player = 0
    /\ lastEnd[2] = 1
    /\ score[0] > 0

\* C8: when the base run loop has left, the congratulated player has the
\* strictly higher score, is the only one at 100 or more and banked in the
\* last turn played; once a score is at 100 or more no die is rolled and no
\* score changes.
C8_NaturalWinner ==
    /\ [](pc = "done" =>
            /\ winner \in {0, 1}
            /\ score[winner] > score[1 - winner]
            /\ score[winner] >= 100
            /\ score[1 - winner] < 100
            /\ lastEnd = <<"bank", winner>>)
    /\ [][ is_winner(score) =>
              /\ score' = score
              /\ die' = die
              /\ turn_total' = turn_total
              /\ pc' = "done" ]_vars

\* the second player has been congratulated, the first having banked too
C8_Witness ==
    /\ ~timed
    /\ pc = "done"
    /\ winner = 1
    /\ score[0] > 0

\* C9: in the timed game, from the first check that finds the limit exceeded
\* on, no die is rolled, no turn is entered and no score changes.
C9_FrozenAfterTimeout ==
    [][ timeUp =>
          /\ die' = die
          /\ score' = score
          /\ turn_total' = turn_total
          /\ pc' \in {"start", "turn"} ]_vars

\* play_turn is called again after the limit was found exceeded
C9_Witness ==
    /\ timeUp
    /\ pc = "turn"
    /\ score[0] > 0

\* C10: the player named by declare_winner has a score at least that of the
\* other player, and is the first player when the scores are equal.
C10_DeclaredHasMax ==
    declared # -1 =>
        /\ declared \in {0, 1}
        /\ timeUp
        /\ score[declared] >= score[1 - declared]
        /\ score[0] = score[1] => declared = 0

\* the first player was declared on equal scores that are not 0
C10_Witness ==
    /\ declared = 0
    /\ score[0] = score[1]
    /\ score[0] > 0

\* C11: in every step of a game, base or timed, with human or computer
\* players, each score stays the same or grows; it never falls and is never
\* put back to 0.
C11_ScoresNeverFall ==
    [][ \A i \in 0..1 :
          /\ score'[i] >= score[i]
          /\ score[i] > 0 => score'[i] > 0 ]_vars

\* a player has banked in two turns: the score grew from a value above 0
C11_Witness ==
    /\ pc = "start"
    /\ lastEnd[1] = "bank"
    /\ turnStart[lastEnd[2]] > 0
    /\ score[lastEnd[2]] > turnStart[lastEnd[2]]

\* C12: a score changes only in the bank that ends a turn of its own player,
\* by the turn total; the other player's score is unchanged throughout the
\* turn, and rolls, continue decisions, player switches after a bust and the
\* steps of the run loop change no score.
C12_OnlyOwnBankChangesScore ==
    /\ [][ \A i \in 0..1 :
             score'[i] # score[i] =>
               /\ i = current_player
               /\ DecisionStep
               /\ IsHold(decision')
               /\ pc' = "start"
               /\ current_player' = 1 - i
               /\ score'[i] = score[i] + turn_total ]_vars
    /\ [](pc \in {"roll", "decide"} => score = turnStart)
    /\ [][ (pc' \in {"start", "turn"}) =>
             score'[current_player'] = turnStart'[current_player'] ]_vars

\* the first player banked in his second turn and the second player's score,
\* above 0, is what it was when that turn began
C12_Witness ==
    /\ pc = "start"
    /\ lastEnd = <<"bank", 0>>
    /\ turnStart[0] > 0
    /\ score[0] > turnStart[0]
    /\ score[1] > 0
    /\ score[1] = turnStart[1]

\* C13: in the timed game the elapsed time is looked at only when play_turn is
\* entered: once a turn has begun, its steps are rolls and decisions until a 1
\* or a hold ends it, also after the limit has passed, and a hold made after
\* the limit still adds the turn total to the score.
C13_CheckOnlyAtTurnStart ==
    /\ [][ (timeUp' # timeUp \/ declared' # declared) => pc = "turn" ]_vars
    /\ [](pc \in {"roll", "decide"} => ~timeUp)
    /\ [](pc = "roll" => ENABLED Roll)
    /\ [](pc = "decide" => ENABLED (DecideHuman \/ DecideComputer))
    /\ [][ (pc \in {"roll", "decide"} /\ pc' # pc) =>
             /\ pc' \in {"roll", "decide", "start"}
             /\ pc' = "start" => (die' = 1 \/ IsHold(decision')) ]_vars
    /\ [][ (DecisionStep /\ IsHold(decision') /\ TimeExceeded(now, start_time)) =>
             /\ score'[current_player] = score[current_player] + turn_total
             /\ score'[current_player] > score[current_player] ]_vars

\* a decision is pending in a turn during which the limit has passed
C13_Witness ==
    /\ timed
    /\ pc = "decide"
    /\ TimeExceeded(now, start_time)
    /\ ~timeUp
    /\ turn_total > 0

\* what a run shows: decisions, scores, turn, position and announced winner
Observed == << score, turn_total, current_player, decision, pc, winner, lastEnd >>

\* C14: with two computer players in the base game the run is a function of
\* the die values: from every reachable state, two steps that show the same
\* die value lead to the same decision, scores, turn and winner, so two runs
\* fed the same die values agree at every step and at the end.
C14_RunDeterminedByDie ==
    [][ \A seen \in {<<die', Observed'>>} :
          ~ENABLED (CCNext /\ die' = seen[1] /\ Observed' # seen[2]) ]_vars

\* a game of two computer players has run to its end, with both having banked
C14_Witness ==
    /\ ~IsHuman(0) /\ ~IsHuman(1)
    /\ ~timed
    /\ pc = "done"
    /\ winner \in {0, 1}
    /\ score[1 - winner] > 0

\* C15: a player type other than 'human' or 'computer' makes create_player
\* raise instead of returning a player; after that (as after the parser's
\* refusal) nothing more happens: no game is made, no die rolled, no turn
\* played, and a game exists only with two players of the known types.
C15_UnknownTypeRaises ==
    /\ [][ pc = "create" =>
             IF \E i \in 0..1 : ptype[i] \notin {"human", "computer"}
             THEN pc' = "raised"
             ELSE pc' = "construct" /\ ptype' = ptype ]_vars
    /\ [][ pc \notin {"raised", "usage"} ]_vars
    /\ [](pc \in {"raised", "usage"} =>
            /\ die = 0
            /\ rolled = 0
            /\ humanTurns = 0
            /\ lastEnd = <<"none", -1>>
            /\ score = [i \in 0..1 |-> 0])
    /\ [](pc \in {"construct", "start", "turn", "roll", "decide", "done"} =>
            \A i \in 0..1 : ptype[i] \in {"human", "computer"})

\* create_player raised on the type of the second player
C15_Witness ==
    /\ pc = "raised"
    /\ ptype[0] = "human"
    /\ ptype[1] = "robot"

\* the player whose rolls made up the present turn total
Roller == IF pc \in {"roll", "decide"} THEN current_player ELSE lastEnd[2]

\* C16: a computer player's turn total never exceeds 30 and its score never
\* exceeds 105, in every reachable state of the base and the timed game.
C16_ComputerTotalsBounded ==
    \A i \in 0..1 :
        ~IsHuman(i) =>
            /\ score[i] <= 105
            /\ Roller = i => turn_total <= 30

\* a computer player banked a turn total of 30 and stands at 105
C16_Witness ==
    /\ pc = "done"
    /\ ~IsHuman(winner)
    /\ Roller = winner
    /\ turn_total = 30
    /\ score[winner] = 105

\* a turn is under way
InTurn == pc \in {"roll", "decide"}
\* a turn has just ended in a bank
JustBanked == pc = "start" /\ lastEnd[1] = "bank"

\* C17 (as stated): between two computer players every turn ends, and if the
\* die does not show 1 forever the base game ends with a winner announced.
C17_EndsUnlessAlwaysOne ==
    /\ InTurn ~> (pc = "start")
    /\ ([]<>(die # 1)) => <>(pc = "done" /\ is_winner(score) /\ winner # -1)

\* C17 (amended): between two computer players every turn ends, and if, for as
\* long as the game runs, turns keep ending in a bank, the base game ends with
\* a winner announced.
C17_EndsIfBanksRecur ==
    /\ InTurn ~> (pc = "start")
    /\ ([]<>(pc = "done" \/ JustBanked)) =>
           <>(pc = "done" /\ is_winner(score) /\ winner # -1)

\* the game of two computer players ended with the first player's bank
C17_Witness ==
    /\ ~IsHuman(0) /\ ~IsHuman(1)
    /\ pc = "done"
    /\ is_winner(score)
    /\ winner = 0
    /\ lastEnd = <<"bank", 0>>

\* the active player's score plus the turn total is at 100 or more, unbanked
Unbanked100 ==
    /\ InTurn
    /\ score[current_player] + turn_total >= 100
    /\ \A i \in 0..1 : score[i] < 100

\* C18: is_winner becomes true only in the step in which the active player
\* banks; while a score plus the turn total is at 100 or more but unbanked
\* nobody has won and the loop has not left, a continue decision goes on to
\* the next roll, and a 1 then forfeits the turn total.
C18_UnbankedNeverWins ==
    /\ [][ (~is_winner(score) /\ is_winner(score')) =>
             /\ DecisionStep
             /\ IsHold(decision')
             /\ score'[current_player] = score[current_player] + turn_total
             /\ score'[current_player] >= 100 ]_vars
    /\ [](Unbanked100 => (~is_winner(score) /\ pc # "done" /\ winner = -1))
    /\ [][ (Unbanked100 /\ DecisionStep /\ ~IsHold(decision')) =>
             /\ pc' = "roll"
             /\ score' = score
             /\ ~is_winner(score') ]_vars
    /\ [][ (Unbanked100 /\ pc = "roll" /\ die' = 1) =>
             /\ pc' = "start"
             /\ turn_total' = 0
             /\ score' = score
             /\ ~is_winner(score') ]_vars

\* a player rolled on with 100 or more in reach, then rolled a 1, and the game
\* goes on with the next turn
C18_Witness ==
    /\ pc = "turn"
    /\ die = 1
    /\ lastEnd[1] = "bust"
    /\ turnStart[lastEnd[2]] + rolled >= 100
    /\ score[lastEnd[2]] < 100
    /\ score = turnStart
    /\ winner = -1

====
